---- MODULE Spec2Model ----
(***************************************************************************)
(* Smart-menu core of tipsio: the publish invariant enforcer               *)
(* (lib/menu-service.ts), the routes that create, edit, publish and read   *)
(* digitization jobs, and the digitization orchestrator (lib/menu-ai.ts).  *)
(*                                                                         *)
(* The database is PostgreSQL driven through Prisma.  publishMenuJob opens *)
(* an interactive transaction without an isolationLevel option, so it runs *)
(* at the database default, READ COMMITTED: a statement sees the rows      *)
(* committed when it starts, an UPDATE takes a row lock on every row it    *)
(* changes and re-checks its WHERE clause on the newest committed version  *)
(* of a row it had to wait for, and readers never see uncommitted rows.    *)
(***************************************************************************)
EXTENDS Integers, Sequences, FiniteSets, TLC

\* ------------------------------------------------------------------ bounds
MaxJobs == 2

SeqJobs == 3

MaxClock == 2

MaxCats == 1

\* Longest array of page entries, and most entries of a pages map, among the
\* values given to normalizeOcrResult.
MaxPages == 2

\* Longest array of lines among them.
MaxLines == 2

\* Most fields of a menu item that differ from a well-formed item among the
\* values given to StructuredMenuSchema.
MaxDeviations == 2

\* Number of distinct short codes the generator can produce.
MaxCodes == 2

\* Longest model reply given to parseModelJson, in characters.
MaxText == 6

Venues == {"v1", "v2"}

\* Venues whose manager sends requests to the routes.
RouteVenues == {"v1"}

Procs == {"p1", "p2"}

SeqProc == "p1"

NULL == 0

\* The database and the requests running against it.
VARIABLES jobs, now, tx, upl, obs, lastTarget, pre

\* One invocation of processMenuDigitization.
VARIABLES ppc, attempt, currentStage, rawOcrResponse, rawLlmResponse,
          tracking, ocrResult, ocrLog, llmLog, result

\* One call of normalizeOcrResult on a parsed JSON value, and one more on
\* what it returned.
VARIABLES npc, nIn, nOut, nOut2

\* One parse of a value by OcrResultSchema or StructuredMenuSchema.
VARIABLES vpc, vSchema, vIn, vOk

dbVars == <<jobs, now, tx, upl, obs, lastTarget, pre>>

pipeVars == <<ppc, attempt, currentStage, rawOcrResponse, rawLlmResponse,
              tracking, ocrResult, ocrLog, llmLog, result>>

\* What an action on the database leaves alone, and what a step of the
\* pipeline leaves alone.
schemaVars == <<vpc, vSchema, vIn, vOk>>

\* the Venue.shortCode column and the ensureVenueShortCode calls in progress
VARIABLES shortCode, sc

codeVars == <<shortCode, sc>>

\* parseModelJson applied to a text: position, text and outcome
VARIABLES jpc, jIn, jOut

parseVars == <<jpc, jIn, jOut>>

pureVars == <<npc, nIn, nOut, nOut2, schemaVars, codeVars, parseVars>>

notDb == <<pipeVars, pureVars>>

notPipe == <<dbVars, pureVars>>

vars == <<dbVars, pipeVars, pureVars>>

\* The pipeline before processMenuDigitization is entered.
NoResult ==
  [kind |-> "none", type |-> "none", cause |-> "none", menu |-> "none",
   rawOcrResponse |-> "", rawLlmResponse |-> ""]

PipeIdle ==
  /\ ppc = "init"
  /\ attempt = 0
  /\ currentStage = "ocr"
  /\ rawOcrResponse = ""
  /\ rawLlmResponse = ""
  /\ tracking = ""
  /\ ocrResult = 0
  /\ ocrLog = <<>>
  /\ llmLog = <<>>
  /\ result = NoResult

\* ------------------------------------------------------------- JSON values
\* A parsed JSON value is a record with the same fields whatever its type:
\* t is the type, s the characters of a string, n a number counted in halves
\* (so that 1.5 is a value), or 0 / 1 for false / true, and a the elements
\* of an array or the entries of an object in property order.  An entry has
\* t = "kv", its key in k and its value as the one element of a.
JNull == [t |-> "null", k |-> "", s |-> <<>>, n |-> 0, a |-> <<>>]

JUndefined == [JNull EXCEPT !.t = "undefined"]

JStr(chars) == [JNull EXCEPT !.t = "str", !.s = chars]

JNum(halves) == [JNull EXCEPT !.t = "num", !.n = halves]

JBool(b) == [JNull EXCEPT !.t = "bool", !.n = IF b THEN 1 ELSE 0]

JArr(elems) == [JNull EXCEPT !.t = "arr", !.a = elems]

JObj(entries) == [JNull EXCEPT !.t = "obj", !.a = entries]

KV(key, value) == [JNull EXCEPT !.t = "kv", !.k = key, !.a = <<value>>]

\* The number i.
Whole(i) == 2 * i

\* A ZodError thrown out of normalizeOcrResult.
Thrown == [JNull EXCEPT !.t = "throw"]

\* No ensureVenueShortCode call: first is the code the call read first, ret
\* the code it returned, err the error it threw, updates the number of
\* updateMany calls it made, other whether an error that is not a uniqueness
\* conflict reached its catch.
IdleCall ==
  [pc |-> "idle", venueId |-> "v1", attempt |-> 0, updates |-> 0,
   first |-> NULL, ret |-> NULL, err |-> "", other |-> FALSE]

\* No outcome of a parse: a value v when ok, else the error message, made of
\* the position and the token the parser stopped at.
NoParse == [ok |-> FALSE, v |-> JUndefined, msg |-> [pos |-> 0, tok |-> ""]]

ParseIdle == jpc = "idle" /\ jIn = <<>> /\ jOut = NoParse

CodeIdle ==
  /\ shortCode = [v \in Venues |-> NULL]
  /\ sc = [p \in Procs |-> IdleCall]

PureIdle ==
  /\ npc = "idle"
  /\ nIn = JUndefined
  /\ nOut = JUndefined
  /\ nOut2 = JUndefined
  /\ vpc = "idle"
  /\ vSchema = "none"
  /\ vIn = JUndefined
  /\ vOk = FALSE
  /\ CodeIdle
  /\ ParseIdle

\* ------------------------------------------------------------ data model
\* A MenuDigitizationJob row.  The position of a row in jobs is its id and
\* its createdAt rank.  errorMessage is TRUE when the column is non-null,
\* cats is the number of MenuCategory rows committed for the job.
\* Faulty variant: the row is created published.
NewJobPublished(v) ==
  [venueId |-> v, status |-> "PROCESSING", isPublished |-> TRUE,
   publishedAt |-> NULL, errorMessage |-> FALSE, cats |-> 0]

NewJob(v) ==
  [venueId |-> v, status |-> "PROCESSING", isPublished |-> FALSE,
   publishedAt |-> NULL, errorMessage |-> FALSE, cats |-> 0]

JobIds == DOMAIN jobs

PublishedOf(v) == {j \in JobIds : jobs[j].venueId = v /\ jobs[j].isPublished}

PubFields == [j \in JobIds |-> <<jobs[j].isPublished, jobs[j].publishedAt>>]

\* Faulty variant: orderBy createdAt 'asc', the venue's oldest job.
LatestJobOldest(v) ==
  LET mine == {j \in JobIds : jobs[j].venueId = v}
  IN IF mine = {} THEN 0 ELSE CHOOSE j \in mine : \A k \in mine : j <= k

\* findFirst({where: {venueId}, orderBy: {createdAt: 'desc'}}); 0 when none
LatestJob(v) ==
  LET mine == {j \in JobIds : jobs[j].venueId = v}
  IN IF mine = {} THEN 0 ELSE CHOOSE j \in mine : \A k \in mine : k <= j

\* --------------------------------------------------- request handler state
IdleTx ==
  [pc |-> "idle", venueId |-> "v1", jobId |-> 0, cand |-> {}, unpub |-> {},
   pubAt |-> NULL, resp |-> "none"]

InFlight == {"begun", "scanned", "unpublished", "updated"}

\* Row locks a transaction holds: every row it has written.
Locks(q) ==
  IF tx[q].pc \in InFlight
  THEN tx[q].unpub \cup (IF tx[q].pubAt # NULL THEN {tx[q].jobId} ELSE {})
  ELSE {}

LockedByOther(p, j) == \E q \in Procs \ {p} : j \in Locks(q)

\* The handler of a request of venue v has answered r.
Respond(v, r) == [IdleTx EXCEPT !.pc = "done", !.venueId = v, !.resp = r]

\* ------------------------------------------------------------ publishMenuJob
\* prisma.$transaction(async (tx) => ...) is entered.
BeginTx(p, v, j) ==
  [IdleTx EXCEPT !.pc = "begun", !.venueId = v, !.jobId = j]

\* Step 1, first half: updateMany({where: {venueId, isPublished: true}})
\* reads the rows that match in the snapshot of its statement.
\* Faulty variant: step 1 matches no row.
ScanCandidatesNone(v) == {}

ScanCandidates(v) == PublishedOf(v)

UnpublishScan(p) ==
  /\ tx[p].pc = "begun"
  /\ tx' = [tx EXCEPT ![p].pc = "scanned",
                      ![p].cand = ScanCandidates(tx[p].venueId)]
  /\ UNCHANGED <<jobs, now, upl, obs, lastTarget, pre, notDb>>

\* Step 1, second half: the rows are locked and written; a row another
\* transaction changed in between is re-checked against the WHERE clause.
UnpublishApply(p) ==
  /\ tx[p].pc = "scanned"
  /\ \A j \in tx[p].cand : ~LockedByOther(p, j)
  /\ tx' = [tx EXCEPT ![p].pc = "unpublished",
                      ![p].unpub = {j \in tx[p].cand : jobs[j].isPublished},
                      ![p].cand = {}]
  /\ UNCHANGED <<jobs, now, upl, obs, lastTarget, pre, notDb>>

\* Faulty variant: step 1 written through prisma instead of tx, so that it
\* survives the rollback.
RollbackWritesNoTx(p) ==
  [j \in JobIds |->
     IF j \in tx[p].unpub THEN [jobs[j] EXCEPT !.isPublished = FALSE]
     ELSE jobs[j]]

\* The rows a transaction whose callback threw leaves behind: both writes
\* went through the transaction client tx, so the rollback drops them.
RollbackWrites(p) == jobs

\* Step 2: update({where: {id: jobId}, data: {isPublished: true,
\* publishedAt: new Date()}}); throws (P2025) when the row does not exist,
\* and the transaction is rolled back.
UpdateTarget(p) ==
  /\ tx[p].pc = "unpublished"
  /\ IF tx[p].jobId \in JobIds
     THEN /\ ~LockedByOther(p, tx[p].jobId)
          /\ tx' = [tx EXCEPT ![p].pc = "updated", ![p].pubAt = now]
          /\ UNCHANGED jobs
     ELSE /\ tx' = [tx EXCEPT ![p] = Respond(tx[p].venueId, "P2025")]
          /\ jobs' = RollbackWrites(p)
  /\ UNCHANGED <<now, upl, obs, lastTarget, pre, notDb>>

\* Faulty variant: the two steps in the opposite order, the unpublish last.
CommitWritesSwapped(p) ==
  [j \in JobIds |->
     IF j = tx[p].jobId
     THEN [jobs[j] EXCEPT !.isPublished = FALSE, !.publishedAt = tx[p].pubAt]
     ELSE IF j \in tx[p].unpub
          THEN [jobs[j] EXCEPT !.isPublished = FALSE]
          ELSE jobs[j]]

\* The rows a committing publish transaction leaves behind.
CommitWrites(p) ==
  [j \in JobIds |->
     IF j = tx[p].jobId
     THEN [jobs[j] EXCEPT !.isPublished = TRUE, !.publishedAt = tx[p].pubAt]
     ELSE IF j \in tx[p].unpub
          THEN [jobs[j] EXCEPT !.isPublished = FALSE]
          ELSE jobs[j]]

Commit(p) ==
  /\ tx[p].pc = "updated"
  /\ jobs' = CommitWrites(p)
  /\ lastTarget' = [lastTarget EXCEPT ![tx[p].venueId] = tx[p].jobId]
  /\ tx' = [tx EXCEPT ![p] = Respond(tx[p].venueId, "published")]
  /\ UNCHANGED <<now, upl, obs, pre, notDb>>

\* Any statement or the commit may fail (connection loss, the interactive
\* transaction timeout, a deadlock victim): the transaction is rolled back.
TxFail(p) ==
  /\ tx[p].pc \in InFlight
  /\ tx' = [tx EXCEPT ![p] = Respond(tx[p].venueId, "error")]
  /\ jobs' = RollbackWrites(p)
  /\ UNCHANGED <<now, upl, obs, lastTarget, pre, notDb>>

\* new Date() advances.
Tick ==
  /\ now < MaxClock
  /\ now' = now + 1
  /\ UNCHANGED <<jobs, tx, upl, obs, lastTarget, pre, notDb>>

\* ------------------------------------------- publishMenuJob called directly
\* One caller, one call after another, against a fixed set of jobs.  The
\* target is a job of the venue or an id that does not exist.
Targets(v) == {j \in 1..(SeqJobs + 1) : j \in JobIds => jobs[j].venueId = v}

SeqCall(v, j) ==
  /\ tx[SeqProc].pc \in {"idle", "done"}
  /\ j \in Targets(v)
  /\ tx' = [tx EXCEPT ![SeqProc] = BeginTx(SeqProc, v, j)]
  /\ pre' = PubFields
  /\ UNCHANGED <<jobs, now, upl, obs, lastTarget, notDb>>

InitJobs ==
  UNION {[1..n -> {[NewJob(v) EXCEPT !.status = s,
                                     !.errorMessage = (s = "FAILED")] :
                     v \in Venues, s \in {"COMPLETED", "FAILED"}}] :
         n \in 1..SeqJobs}

InitSeq ==
  /\ jobs \in InitJobs
  /\ now = 1
  /\ tx = [p \in Procs |-> IdleTx]
  /\ upl = [j \in JobIds |-> "done"]
  /\ obs = [venueId |-> "v1", seen |-> {}, prior |-> FALSE, mid |-> FALSE]
  /\ lastTarget = [v \in Venues |-> 0]
  /\ pre = PubFields
  /\ PipeIdle
  /\ PureIdle

NextSeq ==
  \/ \E v \in Venues, j \in 1..(SeqJobs + 1) : SeqCall(v, j)
  \/ UnpublishScan(SeqProc)
  \/ UnpublishApply(SeqProc)
  \/ UpdateTarget(SeqProc)
  \/ Commit(SeqProc)
  \/ TxFail(SeqProc)
  \/ Tick

SpecSeq == InitSeq /\ [][NextSeq]_vars

\* C1: calls run one after another: after each call (and at every instant)
\* a venue that has had no successful call has no published job, and a
\* venue that has had one has exactly one published job, the target of the
\* most recent one.
C1_SinglePublished ==
  \A v \in Venues :
    PublishedOf(v) = (IF lastTarget[v] = 0 THEN {} ELSE {lastTarget[v]})

C1_Witness ==
  \E v \in Venues :
    /\ tx[SeqProc].pc = "done" /\ tx[SeqProc].resp = "published"
    /\ tx[SeqProc].venueId = v /\ lastTarget[v] # 0
    /\ \E j \in JobIds : j # lastTarget[v] /\ jobs[j].venueId = v
                         /\ jobs[j].publishedAt # NULL

\* C3: a publish call that fails leaves isPublished and publishedAt of every
\* job as they were before the call.
C3_FailedCallChangesNothing ==
  (tx[SeqProc].pc = "done" /\ tx[SeqProc].resp \in {"P2025", "error"})
     => PubFields = pre

C3_Witness ==
  /\ tx[SeqProc].pc = "done" /\ tx[SeqProc].resp = "P2025"
  /\ PublishedOf(tx[SeqProc].venueId) # {}

\* ------------------------------------------------- POST /api/venue/menu/publish
\* The route reads the venue's latest job, rejects when there is none (404)
\* or it is not COMPLETED (400), answers 200 when it is already published,
\* and otherwise calls publishMenuJob with it.
\* Faulty variant: the status of the latest job is not looked at.
RoutePublishCheckNoStatus(v) ==
  LET latestJob == LatestJob(v)
  IN IF latestJob = 0 THEN "404"
     ELSE IF jobs[latestJob].isPublished THEN "already"
     ELSE "publish"

RoutePublishCheck(v) ==
  LET latestJob == LatestJob(v)
  IN IF latestJob = 0 THEN "404"
     ELSE IF jobs[latestJob].status # "COMPLETED" THEN "400"
     ELSE IF jobs[latestJob].isPublished THEN "already"
     ELSE "publish"

\* Faulty variant: a latest job that is already published is published again.
RoutePublishAgain(p, v) ==
  /\ tx[p].pc \in {"idle", "done"}
  /\ LET r == RoutePublishCheck(v)
     IN tx' = [tx EXCEPT ![p] =
                 IF r \in {"publish", "already"} THEN BeginTx(p, v, LatestJob(v))
                 ELSE Respond(v, r)]
  /\ UNCHANGED <<jobs, now, upl, obs, lastTarget, pre, notDb>>

RoutePublish(p, v) ==
  /\ tx[p].pc \in {"idle", "done"}
  /\ LET r == RoutePublishCheck(v)
     IN tx' = [tx EXCEPT ![p] =
                 IF r = "publish" THEN BeginTx(p, v, LatestJob(v))
                 ELSE Respond(v, r)]
  /\ UNCHANGED <<jobs, now, upl, obs, lastTarget, pre, notDb>>

\* ---------------------------------------------------- POST /api/venue/menu/upload
\* 2. the job row is created with status PROCESSING.
UploadCreate(v) ==
  /\ Len(jobs) < MaxJobs
  /\ jobs' = Append(jobs, NewJob(v))
  /\ upl' = Append(upl, "pipeline")
  /\ UNCHANGED <<now, tx, obs, lastTarget, pre, notDb>>

\* 3. processMenuDigitization returns a menu, or raises and the handler goes
\* to its catch block.
UploadPipeline(j) ==
  /\ upl[j] = "pipeline"
  /\ \/ upl' = [upl EXCEPT ![j] = "persist"]
     \/ upl' = [upl EXCEPT ![j] = "catch"]
  /\ UNCHANGED <<jobs, now, tx, obs, lastTarget, pre, notDb>>

\* 4. one transaction creates the n categories of the menu and their items;
\* when it fails nothing of it is kept and the handler goes to its catch.
UploadPersist(j, n) ==
  /\ upl[j] = "persist"
  /\ \/ /\ jobs' = [jobs EXCEPT ![j].cats = n]
        /\ upl' = [upl EXCEPT ![j] = "complete"]
     \/ /\ upl' = [upl EXCEPT ![j] = "catchDb"]
        /\ UNCHANGED jobs
  /\ UNCHANGED <<now, tx, obs, lastTarget, pre, notDb>>

\* Faulty variant: something after the COMPLETED update throws inside the
\* try block, so the catch block runs on a COMPLETED job.
CompletedNextCatch == "catchDb"

\* After the COMPLETED update the handler returns its 200 response.
CompletedNext == "done"

\* The job is updated to COMPLETED; a failing update goes to the catch block.
UploadComplete(j) ==
  /\ upl[j] = "complete"
  /\ \/ /\ jobs' = [jobs EXCEPT ![j].status = "COMPLETED"]
        /\ upl' = [upl EXCEPT ![j] = CompletedNext]
     \/ /\ upl' = [upl EXCEPT ![j] = "catchDb"]
        /\ UNCHANGED jobs
  /\ UNCHANGED <<now, tx, obs, lastTarget, pre, notDb>>

\* Faulty variant: the error message is recorded, the status is not.
JobFailedMessageOnly(row) == [row EXCEPT !.errorMessage = TRUE]

\* data: {status: 'FAILED', errorMessage: error.message or String(error)}:
\* the message is a string, never null.
JobFailed(row) == [row EXCEPT !.status = "FAILED", !.errorMessage = TRUE]

\* catch: the job is updated to FAILED with the error message and the
\* handler answers 500 ("failed" after the pipeline raised, "failedDb" after
\* a statement of step 4 failed); that update is not guarded, so when it
\* fails too the handler throws and the row stays as it was ("lost").
UploadCatch(j) ==
  /\ upl[j] \in {"catch", "catchDb"}
  /\ \/ /\ jobs' = [jobs EXCEPT ![j] = JobFailed(jobs[j])]
        /\ upl' = [upl EXCEPT ![j] =
                     IF upl[j] = "catch" THEN "failed" ELSE "failedDb"]
     \/ /\ upl' = [upl EXCEPT ![j] = "lost"]
        /\ UNCHANGED jobs
  /\ UNCHANGED <<now, tx, obs, lastTarget, pre, notDb>>

\* ----------------------------------------------------- PATCH /api/venue/menu
\* The latest job is read and must be COMPLETED; then one transaction
\* replaces its categories by the n categories of the payload.
MenuEdit(v, n) ==
  /\ LatestJob(v) # 0
  /\ jobs[LatestJob(v)].status = "COMPLETED"
  /\ jobs' = [jobs EXCEPT ![LatestJob(v)].cats = n]
  /\ UNCHANGED <<now, tx, upl, obs, lastTarget, pre, notDb>>

\* ------------------------------------------------------------- guest readers
\* menuJobs: {where: {isPublished: true, status: 'COMPLETED'}} over the
\* committed rows.
VisibleJobs(v) ==
  {j \in JobIds : jobs[j].venueId = v /\ jobs[j].isPublished
                  /\ jobs[j].status = "COMPLETED"}

\* Some publish of the venue has run step 1 on a published row and has not
\* committed yet.
MidPublish(v) ==
  \E p \in Procs : /\ tx[p].pc \in {"unpublished", "updated"}
                    /\ tx[p].venueId = v /\ tx[p].unpub # {}

\* GET /api/v/[shortCode]: hasPublishedMenu = menuJobs.length > 0
ReadHub(v) ==
  /\ obs' = [venueId |-> v, seen |-> VisibleJobs(v),
             prior |-> lastTarget[v] # 0, mid |-> MidPublish(v)]
  /\ UNCHANGED <<jobs, now, tx, upl, lastTarget, pre, notDb>>

\* GET /api/menu/[shortCode]: take: 1, orderBy: {publishedAt: 'desc'}
ReadMenu(v) ==
  /\ \E top \in SUBSET VisibleJobs(v) :
       /\ Cardinality(top) = (IF VisibleJobs(v) = {} THEN 0 ELSE 1)
       /\ \A j \in top : \A k \in VisibleJobs(v) :
            jobs[k].publishedAt <= jobs[j].publishedAt
       /\ obs' = [venueId |-> v, seen |-> top,
                  prior |-> lastTarget[v] # 0, mid |-> MidPublish(v)]
  /\ UNCHANGED <<jobs, now, tx, upl, lastTarget, pre, notDb>>

Init ==
  /\ jobs = <<>>
  /\ now = 1
  /\ tx = [p \in Procs |-> IdleTx]
  /\ upl = <<>>
  /\ obs = [venueId |-> "v1", seen |-> {}, prior |-> FALSE, mid |-> FALSE]
  /\ lastTarget = [v \in Venues |-> 0]
  /\ pre = <<>>
  /\ PipeIdle
  /\ PureIdle

Next ==
  \/ \E p \in Procs, v \in RouteVenues : RoutePublish(p, v)
  \/ \E p \in Procs : UnpublishScan(p)
  \/ \E p \in Procs : UnpublishApply(p)
  \/ \E p \in Procs : UpdateTarget(p)
  \/ \E p \in Procs : Commit(p)
  \/ \E p \in Procs : TxFail(p)
  \/ Tick
  \/ \E v \in RouteVenues : UploadCreate(v)
  \/ \E j \in JobIds : UploadPipeline(j)
  \/ \E j \in JobIds, n \in 0..MaxCats : UploadPersist(j, n)
  \/ \E j \in JobIds : UploadComplete(j)
  \/ \E j \in JobIds : UploadCatch(j)
  \/ \E v \in RouteVenues, n \in 0..MaxCats : MenuEdit(v, n)
  \/ \E v \in RouteVenues : ReadHub(v)
  \/ \E v \in RouteVenues : ReadMenu(v)

Spec == Init /\ [][Next]_vars

\* C2 (as claimed): at every instant at most one job of a venue is
\* published, also when two publish calls with different targets overlap.
C2_AtMostOnePublished ==
  \A v \in Venues : Cardinality(PublishedOf(v)) <= 1

\* C4: a guest reader of a venue that has had a publish committed always
\* finds a published job; it never sees the venue between the unpublish and
\* the publish of a running publish call.
C4_ReaderNeverSeesGap == obs.prior => obs.seen # {}

C4_Witness == obs.prior /\ obs.mid /\ obs.seen # {}

\* C5: in every state reached through uploads, digitization results, menu
\* edits and publish requests of the route, a published job is COMPLETED.
C5_PublishedIsCompleted ==
  \A j \in JobIds : jobs[j].isPublished => jobs[j].status = "COMPLETED"

C5_Witness ==
  /\ \E j \in JobIds : jobs[j].isPublished
  /\ \E p \in Procs : tx[p].pc = "done" /\ tx[p].resp = "400"

\* ------------------------------------------------------------ Model Gateway
\* The openrouter module that exports OpenRouterRequestError and
\* OpenRouterTextError, which menu-ai.ts imports, is not among the sources;
\* the outcomes of a gateway call follow spec 4.1 and the fields menu-ai.ts
\* reads (status, rawText, rawResponse).  What one gateway call can do:
\* return content and raw text, fail with a request failure that carries a
\* status and raw text, fail with a vision-empty / structuring-empty failure
\* that carries the raw response, or fail with any other error.
\* Status 0 stands for the sentinel of a timeout or network failure.
Statuses == {0, 400, 429, 499, 500, 503}

RawTexts == {"", "rawA", "rawB"}

\* The raw text of a call that returns, or that fails as vision-empty or
\* structuring-empty, is a response body JSON.parse has accepted: it is not
\* the empty string.
BodyTexts == RawTexts \ {""}

\* The null of MenuDigitizationError.rawOcrResponse / rawLlmResponse.
NullText == "<null>"

\* OCR content by what the recovery parser, the normalizer and the OCR
\* schema do with it: "pages" passes all three, "garbage" is not recoverable
\* JSON, "badpages" parses but is rejected by OcrResultSchema.parse.
OcrContents == {"pages", "garbage", "badpages"}

\* Structuring content: two menus that carry every field, a menu whose items
\* leave out priceCurrency, isSpicy and isLocalSpecial, text that is not
\* recoverable JSON, and JSON that StructuredMenuSchema rejects.
LlmContents == {"menuA", "menuB", "menuBare", "garbage", "badmenu"}

Outcome(k, st, c, r) == [kind |-> k, status |-> st, content |-> c, raw |-> r]

OcrOutcomes ==
  {Outcome("ok", 200, c, r) : c \in OcrContents, r \in BodyTexts}
    \cup {Outcome("request", st, "none", r) : st \in Statuses, r \in RawTexts}
    \cup {Outcome("vision", 200, "none", r) : r \in BodyTexts}
    \cup {Outcome("other", 0, "none", "")}

LlmOutcomes ==
  {Outcome("ok", 200, c, r) : c \in LlmContents, r \in BodyTexts}
    \cup {Outcome("request", st, "none", r) : st \in Statuses, r \in RawTexts}
    \cup {Outcome("text", 200, "none", r) : r \in BodyTexts}
    \cup {Outcome("other", 0, "none", "")}

\* ------------------------------------------------------- content processing
\* Faulty variant: the OCR content is handed on without being checked.
OcrContentErrorNone(c) == "none"

\* parseModelJson(content) followed by normalizeOcrResult and
\* OcrResultSchema.parse: the error it throws, "none" when it passes.
OcrContentError(c) ==
  IF c = "garbage" THEN "parse"
  ELSE IF c = "badpages" THEN "validation"
  ELSE "none"

\* parseModelJson(content) followed by StructuredMenuSchema.parse.
LlmContentError(c) ==
  IF c = "garbage" THEN "parse"
  ELSE IF c = "badmenu" THEN "validation"
  ELSE "none"

\* What StructuredMenuSchema.parse returns for content it accepts: the
\* fields with a .default(...) are filled in where the content leaves them
\* out, everything else is kept.
StructuredMenuParse(c) == IF c = "menuBare" THEN "menuBareDefaults" ELSE c

\* ------------------------------------------------------------ retry control
\* Faulty variant: one attempt more.
MAX_ATTEMPTS_OCR_Three == 2 + 1

MAX_ATTEMPTS_OCR == 2

\* Faulty variant: one attempt more.
MAX_ATTEMPTS_LLM_Three == 2 + 1

MAX_ATTEMPTS_LLM == 2

\* Faulty variant: status 429 is not retried.
IsRetriableNo429(o) ==
  IF o.kind = "request" THEN o.status >= 500
  ELSE o.kind = "vision"

\* runOcrWithRetry: error instanceof OpenRouterRequestError
\*   ? status >= 500 || status === 429 : error instanceof OpenRouterVisionError
IsRetriable(o) ==
  IF o.kind = "request" THEN o.status >= 500 \/ o.status = 429
  ELSE o.kind = "vision"

\* attempt < MAX_ATTEMPTS - 1 in the catch of runOcrWithRetry
OcrAttemptsLeft(a) == a < MAX_ATTEMPTS_OCR - 1

\* attempt < MAX_ATTEMPTS, the loop condition of runOcrWithRetry
OcrLoopGoesOn(a) == a < MAX_ATTEMPTS_OCR

\* attempt < MAX_ATTEMPTS - 1 in the catch of runStructuredMenuWithRetry
LlmAttemptsLeft(a) == a < MAX_ATTEMPTS_LLM - 1

\* attempt < MAX_ATTEMPTS, the loop condition of runStructuredMenuWithRetry
LlmLoopGoesOn(a) == a < MAX_ATTEMPTS_LLM

\* Faulty variant: the loop counter is not advanced.
NextAttemptStuck(a) == a

\* attempt++ of both retry loops
NextAttempt(a) == a + 1

\* Faulty variant: the gateway call inside the try block.
LlmCaughtInLoopAll(o) == TRUE

\* runStructuredMenuWithRetry awaits structureMenuData outside its try
\* block: only what parseModelJson and StructuredMenuSchema.parse throw is
\* caught by the loop.
LlmCaughtInLoop(o) == o.kind = "ok"

\* ------------------------------------------------------ MenuDigitizationError
\* options?.rawOcrResponse?.length ? options.rawOcrResponse : null
OrNull(text) == IF text = "" THEN NullText ELSE text

\* Faulty variant: the raw texts the failure itself carries are ignored.
DigitizationNoFallback(err, stage, ocrRaw, track) ==
  [kind |-> "raise", type |-> "MenuDigitizationError", cause |-> err.kind,
   menu |-> "none",
   rawOcrResponse |-> IF ocrRaw = "" THEN "<null>" ELSE ocrRaw,
   rawLlmResponse |-> IF rawLlmResponse = "" THEN "<null>"
                      ELSE rawLlmResponse]

\* The catch block of processMenuDigitization: err is the failed gateway
\* outcome, or an outcome of kind "parse" / "validation" for a content
\* error; stage, ocrRaw and track are currentStage, rawOcrResponse and
\* llmTracking.rawResponse when the error is caught.
Digitization(err, stage, ocrRaw, track) ==
  LET llmRaw == IF rawLlmResponse # "" THEN rawLlmResponse ELSE track
      fallbackOcr == IF err.kind = "vision" THEN err.raw
                     ELSE IF err.kind = "request" /\ stage = "ocr" THEN err.raw
                     ELSE ocrRaw
      fallbackLlm == IF err.kind = "text" THEN err.raw
                     ELSE IF err.kind = "request" /\ stage = "llm" THEN err.raw
                     ELSE llmRaw
  IN [kind |-> "raise", type |-> "MenuDigitizationError", cause |-> err.kind,
      menu |-> "none", rawOcrResponse |-> OrNull(fallbackOcr),
      rawLlmResponse |-> OrNull(fallbackLlm)]

ContentFailure(k) == Outcome(k, 0, "none", "")

\* ---------------------------------------------------- processMenuDigitization
\* new OpenRouterClient() runs before the try block; its constructor throws
\* a plain Error when OPENROUTER_API_KEY is not set.
PipeStart(apiKeySet) ==
  /\ ppc = "init"
  /\ IF apiKeySet
     THEN /\ ppc' = "ocr"
          /\ UNCHANGED result
     ELSE /\ ppc' = "done"
          /\ result' = [NoResult EXCEPT !.kind = "raise", !.type = "Error",
                                        !.cause = "config"]
  /\ UNCHANGED <<attempt, currentStage, rawOcrResponse, rawLlmResponse,
                 tracking, ocrResult, ocrLog, llmLog, notPipe>>

\* One extractTextFromImages call of runOcrWithRetry and everything up to
\* the next gateway call or the end of the invocation.  A failure is thrown
\* on from the catch when it is not retried, and from behind the loop (throw
\* lastError) when the loop ends; both reach the same catch block.
OcrCall(o) ==
  /\ ppc = "ocr"
  /\ ocrLog' = Append(ocrLog, o)
  /\ IF o.kind = "ok"
     THEN /\ rawOcrResponse' = o.raw
          /\ IF OcrContentError(o.content) = "none"
             THEN /\ ocrResult' = Len(ocrLog) + 1
                  /\ currentStage' = "llm"
                  /\ ppc' = "llm"
                  /\ attempt' = 0
                  /\ UNCHANGED result
             ELSE /\ ppc' = "done"
                  /\ result' = Digitization(
                       ContentFailure(OcrContentError(o.content)),
                       currentStage, o.raw, tracking)
                  /\ UNCHANGED <<ocrResult, currentStage, attempt>>
     ELSE IF IsRetriable(o) /\ OcrAttemptsLeft(attempt)
             /\ OcrLoopGoesOn(NextAttempt(attempt))
     THEN /\ attempt' = NextAttempt(attempt)
          /\ UNCHANGED <<ppc, rawOcrResponse, ocrResult, currentStage, result>>
     ELSE /\ ppc' = "done"
          /\ result' = Digitization(o, currentStage, rawOcrResponse, tracking)
          /\ UNCHANGED <<rawOcrResponse, ocrResult, currentStage, attempt>>
  /\ UNCHANGED <<rawLlmResponse, tracking, llmLog, notPipe>>

\* Faulty variant: only the first structuring call's raw text is recorded.
TrackRawFirst(o, old) ==
  IF o.kind = "ok" /\ old = "" THEN o.raw ELSE old

\* tracking.rawResponse = rawResponse after structureMenuData has returned;
\* a call that throws leaves it as it was.
TrackRaw(o, old) == IF o.kind = "ok" THEN o.raw ELSE old

\* One structureMenuData call of runStructuredMenuWithRetry and everything
\* up to the next gateway call or the end of the invocation.
LlmCall(o) ==
  /\ ppc = "llm"
  /\ llmLog' = Append(llmLog, [out |-> o, arg |-> ocrResult])
  /\ LET track == TrackRaw(o, tracking)
         err == IF o.kind = "ok"
                THEN ContentFailure(LlmContentError(o.content)) ELSE o
     IN /\ tracking' = track
        /\ IF o.kind = "ok" /\ LlmContentError(o.content) = "none"
           THEN /\ ppc' = "done"
                /\ rawLlmResponse' = track
                /\ result' = [NoResult EXCEPT !.kind = "return",
                                !.menu = StructuredMenuParse(o.content),
                                !.rawOcrResponse = rawOcrResponse,
                                !.rawLlmResponse = track]
                /\ UNCHANGED attempt
           ELSE IF LlmCaughtInLoop(o) /\ LlmAttemptsLeft(attempt)
                   /\ LlmLoopGoesOn(NextAttempt(attempt))
           THEN /\ attempt' = NextAttempt(attempt)
                /\ UNCHANGED <<ppc, rawLlmResponse, result>>
           ELSE /\ ppc' = "done"
                /\ result' = Digitization(err, currentStage, rawOcrResponse,
                                          track)
                /\ UNCHANGED <<attempt, rawLlmResponse>>
  /\ UNCHANGED <<currentStage, rawOcrResponse, ocrResult, ocrLog, notPipe>>

InitPipe ==
  /\ jobs = <<>>
  /\ now = 1
  /\ tx = [p \in Procs |-> IdleTx]
  /\ upl = <<>>
  /\ obs = [venueId |-> "v1", seen |-> {}, prior |-> FALSE, mid |-> FALSE]
  /\ lastTarget = [v \in Venues |-> 0]
  /\ pre = <<>>
  /\ PipeIdle
  /\ PureIdle

NextPipe ==
  \/ \E apiKeySet \in BOOLEAN : PipeStart(apiKeySet)
  \/ \E o \in OcrOutcomes : OcrCall(o)
  \/ \E o \in LlmOutcomes : LlmCall(o)

SpecPipe == InitPipe /\ [][NextPipe]_vars

\* Every gateway call returns or fails (the per-call timeout aborts a call
\* that hangs), and nothing else in the orchestrator waits: a step that is
\* possible is taken.
SpecPipeLive ==
  /\ InitPipe /\ [][NextPipe]_vars
  /\ WF_vars(\E apiKeySet \in BOOLEAN : PipeStart(apiKeySet))
  /\ WF_vars(\E o \in OcrOutcomes : OcrCall(o))
  /\ WF_vars(\E o \in LlmOutcomes : LlmCall(o))

\* --------------------------------------------------------- pipeline claims
Failed500(o) == o.kind = "request" /\ o.status = 500

OcrPassed(o) == o.kind = "ok" /\ o.content = "pages"

LlmPassed(o) == o.kind = "ok" /\ o.content \in {"menuA", "menuB"}

LlmRejected(o) == o.kind = "ok" /\ o.content \in {"garbage", "badmenu"}

Raised == ppc = "done" /\ result.kind = "raise"

Returned == ppc = "done" /\ result.kind = "return"

C9_LlmContentRetry ==
  /\ Len(llmLog) <= 2
  /\ \A i \in 1..Len(llmLog) :
       /\ llmLog[i].arg = ocrResult
       /\ ocrResult \in 1..Len(ocrLog) /\ OcrPassed(ocrLog[ocrResult])
  /\ (Len(llmLog) >= 1 /\ LlmRejected(llmLog[1].out)) =>
       /\ Len(llmLog) = 1 => (ppc = "llm" /\ result.kind = "none")
       /\ (Len(llmLog) = 2 /\ LlmPassed(llmLog[2].out)) =>
            (Returned /\ result.menu = llmLog[2].out.content)
       /\ (Len(llmLog) = 2 /\ LlmRejected(llmLog[2].out)) => Raised

C9_Witness ==
  /\ Len(llmLog) = 2 /\ Returned
  /\ llmLog[1].out.content = "badmenu" /\ llmLog[2].out.content = "menuB"

\* C10 (as claimed): an invocation that has ended has returned a result or
\* raised a MenuDigitizationError, never another error.
C10_OnlyTypedFailure ==
  ppc = "done" =>
    \/ result.kind = "return"
    \/ result.kind = "raise" /\ result.type = "MenuDigitizationError"
\* C11: a raised digitization failure carries the best-available raw texts:
\* after an OCR call has succeeded its rawOcrResponse is the raw text of that
\* call, whatever failed afterwards (JSON recovery, normalization, OCR
\* validation, any structuring step); when OCR ended with a vision-empty
\* failure it is the payload that failure captured; and when the content of
\* the last structuring call was rejected its rawLlmResponse is the raw text
\* of that last call.
C11_BestRawTexts ==
  (Raised /\ result.type = "MenuDigitizationError") =>
     LET lastOcr == ocrLog[Len(ocrLog)]
         lastLlm == llmLog[Len(llmLog)].out
     IN /\ lastOcr.kind = "ok" => result.rawOcrResponse = lastOcr.raw
        /\ lastOcr.kind = "vision" => result.rawOcrResponse = lastOcr.raw
        /\ (llmLog # <<>> /\ LlmRejected(lastLlm)) =>
             result.rawLlmResponse = lastLlm.raw

C11_Witness ==
  /\ Raised /\ Len(llmLog) = 2
  /\ LlmRejected(llmLog[1].out) /\ LlmRejected(llmLog[2].out)
  /\ llmLog[1].out.raw = "rawA" /\ llmLog[2].out.raw = "rawB"
  /\ result.rawLlmResponse = "rawB"
  /\ result.rawOcrResponse = ocrLog[Len(ocrLog)].raw

\* C12: on success the orchestrator returns the menu obtained by validating
\* the content of the structuring call that passed (that content itself
\* when it carries every field), the raw text of the successful OCR call,
\* and the raw text of that same structuring call, not of an earlier
\* rejected one.
C12_SuccessResult ==
  Returned =>
    LET okOcr == ocrLog[Len(ocrLog)]
        okLlm == llmLog[Len(llmLog)].out
    IN /\ OcrPassed(okOcr)
       /\ okLlm.kind = "ok" /\ LlmContentError(okLlm.content) = "none"
       /\ result.menu = StructuredMenuParse(okLlm.content)
       /\ okLlm.content \in {"menuA", "menuB"} => result.menu = okLlm.content
       /\ result.rawOcrResponse = okOcr.raw
       /\ result.rawLlmResponse = okLlm.raw

C12_Witness ==
  /\ Returned /\ Len(llmLog) = 2
  /\ LlmRejected(llmLog[1].out) /\ llmLog[1].out.raw = "rawA"
  /\ llmLog[2].out.content = "menuA" /\ llmLog[2].out.raw = "rawB"
  /\ result.menu = "menuA" /\ result.rawLlmResponse = "rawB"

\* C13: under any sequence of upload, digitization, edit and publish
\* operations a job whose status is COMPLETED or FAILED keeps that status in
\* every later step.
C13_StatusTerminal ==
  [][\A j \in DOMAIN jobs :
       jobs[j].status \in {"COMPLETED", "FAILED"} =>
         (j \in DOMAIN jobs' /\ jobs'[j].status = jobs[j].status)]_vars

C13_Witness ==
  /\ \E j \in JobIds : /\ jobs[j].status = "COMPLETED" /\ jobs[j].isPublished
                        /\ jobs[j].cats # 0
  /\ \E k \in JobIds : jobs[k].status = "FAILED" /\ upl[k] = "failed"

\* C14: a job whose upload handler has answered after the pipeline raised is
\* FAILED with a non-null errorMessage; a job whose handler has answered
\* after the pipeline and the persistence of its result succeeded is
\* COMPLETED; and a job with a non-null errorMessage is FAILED.
C14_StatusRecorded ==
  \A j \in JobIds :
    /\ upl[j] = "failed" => (jobs[j].status = "FAILED" /\ jobs[j].errorMessage)
    /\ upl[j] = "done" => jobs[j].status = "COMPLETED"
    /\ jobs[j].errorMessage => jobs[j].status = "FAILED"

C14_Witness ==
  /\ \E j \in JobIds : upl[j] = "failed" /\ jobs[j].errorMessage
  /\ \E k \in JobIds : upl[k] = "done" /\ jobs[k].status = "COMPLETED"

\* C15: every invocation of the pipeline ends (returns or raises), and at
\* every instant it has made at most 2 OCR gateway calls and at most 2
\* structuring gateway calls.
C15_Terminates ==
  /\ [](Len(ocrLog) <= 2 /\ Len(llmLog) <= 2)
  /\ <>(ppc = "done")

C15_Witness ==
  /\ ppc = "done" /\ Len(ocrLog) = 2 /\ Len(llmLog) = 2

\* ------------------------------------------------------ strings and numbers
WhiteSpace == {" ", "\n", "\r", "\t"}

\* String.prototype.trim
RECURSIVE TrimStart(_)
TrimStart(chars) ==
  IF chars # <<>> /\ Head(chars) \in WhiteSpace
  THEN TrimStart(Tail(chars)) ELSE chars

RECURSIVE TrimEnd(_)
TrimEnd(chars) ==
  IF chars # <<>> /\ chars[Len(chars)] \in WhiteSpace
  THEN TrimEnd(SubSeq(chars, 1, Len(chars) - 1)) ELSE chars

Trim(chars) == TrimEnd(TrimStart(chars))

\* text.split(/\r?\n/)
RECURSIVE Split(_)
Split(chars) ==
  IF \A i \in 1..Len(chars) : chars[i] # "\n" THEN <<chars>>
  ELSE LET i == CHOOSE i \in 1..Len(chars) :
                  chars[i] = "\n" /\ \A j \in 1..(i - 1) : chars[j] # "\n"
           cut == IF i > 1 /\ chars[i - 1] = "\r" THEN i - 2 ELSE i - 1
       IN <<SubSeq(chars, 1, cut)>> \o Split(SubSeq(chars, i + 1, Len(chars)))

NonEmpty(chars) == Len(chars) > 0

RECURSIVE TrimAll(_)
TrimAll(texts) ==
  IF texts = <<>> THEN <<>> ELSE <<Trim(Head(texts))>> \o TrimAll(Tail(texts))

\* text.split(/\r?\n/).map(trim).filter(length > 0)
normalizeTextToLines(text) == SelectSeq(TrimAll(Split(text)), NonEmpty)

Digits == <<"0", "1", "2", "3", "4", "5", "6", "7", "8", "9">>

RECURSIVE NatText(_)
NatText(i) ==
  IF i < 10 THEN <<Digits[i + 1]>>
  ELSE NatText(i \div 10) \o <<Digits[(i % 10) + 1]>>

\* String(number), the number counted in halves
NumberText(halves) ==
  LET m == IF halves < 0 THEN 0 - halves ELSE halves
  IN (IF halves < 0 THEN <<"-">> ELSE <<>>)
       \o NatText(m \div 2)
       \o (IF m % 2 = 1 THEN <<".", "5">> ELSE <<>>)

\* String(v); an array is its elements joined by ",", null and undefined
\* elements as the empty string.
RECURSIVE StringOf(_), JoinComma(_)
StringOf(v) ==
  CASE v.t = "str" -> v.s
    [] v.t = "num" -> NumberText(v.n)
    [] v.t = "bool" -> IF v.n = 1 THEN <<"t", "r", "u", "e">>
                       ELSE <<"f", "a", "l", "s", "e">>
    [] v.t = "null" -> <<"n", "u", "l", "l">>
    [] v.t = "arr" -> JoinComma(v.a)
    [] v.t = "obj" -> <<"[", "o", "b", "j", "e", "c", "t", " ",
                        "O", "b", "j", "e", "c", "t", "]">>
    [] OTHER -> <<"u", "n", "d", "e", "f", "i", "n", "e", "d">>

JoinComma(elems) ==
  IF elems = <<>> THEN <<>>
  ELSE LET first == IF Head(elems).t \in {"null", "undefined"} THEN <<>>
                    ELSE StringOf(Head(elems))
       IN IF Len(elems) = 1 THEN first
          ELSE first \o <<",">> \o JoinComma(Tail(elems))

\* values.map((v) => String(v)).map((l) => l.trim())
RECURSIVE TrimmedStrings(_)
TrimmedStrings(elems) ==
  IF elems = <<>> THEN <<>>
  ELSE <<Trim(StringOf(Head(elems)))>> \o TrimmedStrings(Tail(elems))

\* values.map(String).map(trim).filter((l) => l.length > 0)
StringLines(elems) == SelectSeq(TrimmedStrings(elems), NonEmpty)

\* ------------------------------------------------------------ object access
\* key in value
HasKey(obj, key) == \E i \in 1..Len(obj.a) : obj.a[i].k = key

\* value.key; undefined when the object has no such property
Prop(obj, key) ==
  IF obj.t = "obj" /\ HasKey(obj, key)
  THEN obj.a[CHOOSE i \in 1..Len(obj.a) : obj.a[i].k = key].a[1]
  ELSE JUndefined

isRecord(value) == value.t = "obj"

\* a ?? b
Nullish(a, b) == IF a.t \in {"null", "undefined"} THEN b ELSE a

\* Number.isInteger, on a number counted in halves
IsInteger(halves) == halves % 2 = 0

RECURSIVE Strs(_)
Strs(texts) ==
  IF texts = <<>> THEN <<>> ELSE <<JStr(Head(texts))>> \o Strs(Tail(texts))

\* {pageIndex, lines}
Page(pageIndex, lines) ==
  JObj(<<KV("pageIndex", JNum(pageIndex)), KV("lines", JArr(Strs(lines)))>>)

\* ---------------------------------------------------------- OcrResultSchema
\* z.number().int().min(0)
PageIndexOk(v) == v.t = "num" /\ IsInteger(v.n) /\ v.n >= 0

\* z.array(z.string())
LinesOk(v) == v.t = "arr" /\ \A i \in 1..Len(v.a) : v.a[i].t = "str"

OcrPageSchemaOk(v) ==
  /\ v.t = "obj"
  /\ PageIndexOk(Prop(v, "pageIndex"))
  /\ LinesOk(Prop(v, "lines"))

OcrResultSchemaOk(v) ==
  /\ v.t = "obj"
  /\ Prop(v, "pages").t = "arr"
  /\ \A i \in 1..Len(Prop(v, "pages").a) : OcrPageSchemaOk(Prop(v, "pages").a[i])

\* The data of a successful parse: the keys of the schema, in its order;
\* unknown keys are stripped.
RECURSIVE OcrPagesData(_)
OcrPagesData(elems) ==
  IF elems = <<>> THEN <<>>
  ELSE <<JObj(<<KV("pageIndex", Prop(Head(elems), "pageIndex")),
                KV("lines", Prop(Head(elems), "lines"))>>)>>
         \o OcrPagesData(Tail(elems))

OcrResultSchemaData(v) ==
  JObj(<<KV("pages", JArr(OcrPagesData(Prop(v, "pages").a)))>>)

\* OcrResultSchema.parse(v): the data, or a ZodError
OcrResultSchemaParse(v) ==
  IF OcrResultSchemaOk(v) THEN OcrResultSchemaData(v) ELSE Thrown

\* ------------------------------------------------------------ coerceOcrPages
\* coercePage(pageRaw, fallbackIndex): the pages it pushes, none or one.
coercePage(pageRaw, fallbackIndex) ==
  IF pageRaw.t = "str"
  THEN <<Page(fallbackIndex, normalizeTextToLines(pageRaw.s))>>
  ELSE IF pageRaw.t = "arr"
  THEN <<Page(fallbackIndex, StringLines(pageRaw.a))>>
  ELSE IF ~isRecord(pageRaw) THEN <<>>
  ELSE
    LET explicitIndex ==
          IF Prop(pageRaw, "pageIndex").t = "num" THEN Prop(pageRaw, "pageIndex")
          ELSE IF Prop(pageRaw, "index").t = "num" THEN Prop(pageRaw, "index")
          ELSE IF Prop(pageRaw, "page").t = "num" THEN Prop(pageRaw, "page")
          ELSE JUndefined
        pageIndex ==
          IF explicitIndex.t = "num" /\ IsInteger(explicitIndex.n)
             /\ explicitIndex.n >= 0
          THEN explicitIndex.n ELSE fallbackIndex
        linesValue ==
          Nullish(Nullish(Prop(pageRaw, "lines"), Prop(pageRaw, "line")),
                  Prop(pageRaw, "textLines"))
        textValue ==
          IF Prop(pageRaw, "text").t = "str" THEN Prop(pageRaw, "text")
          ELSE IF Prop(pageRaw, "content").t = "str" THEN Prop(pageRaw, "content")
          ELSE IF Prop(pageRaw, "pageText").t = "str"
               THEN Prop(pageRaw, "pageText")
          ELSE JNull
    IN IF linesValue.t = "arr"
       THEN <<Page(pageIndex, StringLines(linesValue.a))>>
       ELSE IF textValue.t = "str"
       THEN <<Page(pageIndex, normalizeTextToLines(textValue.s))>>
       ELSE <<>>

\* entries.forEach((entry, idx) => coercePage(entry, idx)), from entry i on
RECURSIVE EachPage(_, _)
EachPage(elems, i) ==
  IF i > Len(elems) THEN <<>>
  ELSE coercePage(elems[i], Whole(i - 1)) \o EachPage(elems, i + 1)

\* The keys a pages map of the model may have, and Number(key) for each;
\* Number(key) is NaN for any other key.
Numerals == {"", "0", "1", "-1", "1.5"}

NumberOfKey(key) ==
  CASE key = "" -> 0
    [] key = "0" -> 0
    [] key = "1" -> Whole(1)
    [] key = "-1" -> Whole(-1)
    [] key = "1.5" -> 3

KeyIsNaN(key) == key \notin Numerals

\* a.localeCompare(b), by the rank of the keys in collation order
KeyRank(key) ==
  CASE key = "" -> 0
    [] key = "-1" -> 1
    [] key = "0" -> 2
    [] key = "1" -> 3
    [] key = "1.5" -> 4
    [] key = "a" -> 5
    [] OTHER -> 6

\* The comparator of the sort over the entries of a pages map.
CompareKeys(a, b) ==
  IF ~KeyIsNaN(a) /\ ~KeyIsNaN(b) THEN NumberOfKey(a) - NumberOfKey(b)
  ELSE KeyRank(a) - KeyRank(b)

\* Array.prototype.sort is stable: an entry goes behind every entry that
\* does not sort after it.
RECURSIVE InsertEntry(_, _)
InsertEntry(e, sorted) ==
  IF sorted = <<>> THEN <<e>>
  ELSE IF CompareKeys(sorted[Len(sorted)].k, e.k) <= 0 THEN Append(sorted, e)
  ELSE Append(InsertEntry(e, SubSeq(sorted, 1, Len(sorted) - 1)),
              sorted[Len(sorted)])

RECURSIVE SortEntries(_)
SortEntries(entries) ==
  IF entries = <<>> THEN <<>>
  ELSE InsertEntry(entries[Len(entries)],
                   SortEntries(SubSeq(entries, 1, Len(entries) - 1)))

\* .forEach(([key, value], idx) => coercePage(value, isNaN(Number(key)) ? idx
\* : Number(key))), from entry i on
RECURSIVE EachEntry(_, _)
EachEntry(entries, i) ==
  IF i > Len(entries) THEN <<>>
  ELSE LET key == entries[i].k
           fallbackIndex == IF KeyIsNaN(key) THEN Whole(i - 1)
                            ELSE NumberOfKey(key)
       IN coercePage(entries[i].a[1], fallbackIndex)
            \o EachEntry(entries, i + 1)

coerceOcrPages(raw) ==
  IF raw.t = "arr"
  THEN IF \E i \in 1..Len(raw.a) : raw.a[i].t \in {"obj", "arr"}
       THEN EachPage(raw.a, 1)
       ELSE <<Page(0, StringLines(raw.a))>>
  ELSE IF raw.t = "str" THEN <<Page(0, normalizeTextToLines(raw.s))>>
  ELSE IF ~isRecord(raw) THEN <<>>
  ELSE
    LET rawPages == Prop(raw, "pages")
    IN IF HasKey(raw, "pages") /\ rawPages.t = "arr"
       THEN EachPage(rawPages.a, 1)
       ELSE IF HasKey(raw, "pages") /\ isRecord(rawPages)
       THEN EachEntry(SortEntries(rawPages.a), 1)
       ELSE IF HasKey(raw, "pages") /\ rawPages.t = "str"
       THEN <<Page(0, normalizeTextToLines(rawPages.s))>>
       ELSE IF Prop(raw, "lines").t = "arr"
       THEN <<Page(0, StringLines(Prop(raw, "lines").a))>>
       ELSE IF Prop(raw, "text").t = "str"
       THEN <<Page(0, normalizeTextToLines(Prop(raw, "text").s))>>
       ELSE <<>>

\* --------------------------------------------------------- normalizeOcrResult
\* Faulty variant: the value is never taken as it is.
SafeParseNever(v) == FALSE

\* OcrResultSchema.safeParse(v).success
SafeParseSuccess(v) == OcrResultSchemaOk(v)

normalizeOcrResult(raw) ==
  IF SafeParseSuccess(raw) THEN OcrResultSchemaData(raw)
  ELSE
    LET unwrapped ==
          IF isRecord(raw) /\ HasKey(raw, "result") THEN Prop(raw, "result")
          ELSE IF isRecord(raw) /\ HasKey(raw, "data") THEN Prop(raw, "data")
          ELSE raw
    IN IF SafeParseSuccess(unwrapped) THEN OcrResultSchemaData(unwrapped)
       ELSE OcrResultSchemaParse(
              JObj(<<KV("pages", JArr(coerceOcrPages(unwrapped)))>>))

\* ------------------------------------------- the values given to the normalizer
SeqsUpTo(S, n) == UNION {[1..m -> S] : m \in 0..n}

Texts ==
  {<<>>, <<"a">>, <<" ", "b", " ">>, <<"a", "\n", " ", "\n", "b">>,
   <<"a", "\r", "\n", "b">>}

LineValues ==
  {JStr(<<"a">>), JStr(<<" ", "b", " ">>), JStr(<<>>), JNum(Whole(7)), JNull}

LineArrays == SeqsUpTo(LineValues, MaxLines)

\* How a page object states its index, and how it states its text.
IndexFields ==
  {<<>>,
   <<KV("pageIndex", JNum(Whole(0)))>>,
   <<KV("pageIndex", JNum(Whole(1)))>>,
   <<KV("pageIndex", JNum(Whole(-1)))>>,
   <<KV("pageIndex", JStr(<<"0">>)), KV("index", JNum(Whole(1)))>>,
   <<KV("page", JNum(3))>>}

BodyFields ==
  {<<>>,
   <<KV("lines", JArr(<<JStr(<<"a">>)>>))>>,
   <<KV("lines", JArr(<<JStr(<<" ", "b", " ">>), JStr(<<>>)>>))>>,
   <<KV("text", JStr(<<"a", "\n", " ", "\n", "b">>))>>}

PageEntries ==
  {JObj(i \o b) : i \in IndexFields, b \in BodyFields}
    \cup {JObj(<<KV("pageIndex", JNum(Whole(0))),
                 KV("lines", JArr(<<JStr(<<"a">>)>>)),
                 KV("confidence", JNum(1))>>),
          JStr(<<"a", "\r", "\n", "b">>),
          JArr(<<JStr(<<" ", "b", " ">>), JNum(Whole(7))>>),
          JNull}

PageArrays == SeqsUpTo(PageEntries, MaxPages)

\* The entries of a pages map: distinct keys in property order, the
\* array-index keys first and ascending.
MapKeys == {"0", "1", "-1", "1.5", "", "a"}

IndexKeyRank(key) == IF key = "0" THEN 0 ELSE IF key = "1" THEN 1 ELSE 2

MapValues ==
  {JStr(<<"a", "\n", " ", "\n", "b">>),
   JArr(<<JStr(<<"a">>)>>),
   JObj(<<KV("lines", JArr(<<JStr(<<"a">>)>>))>>),
   JObj(<<KV("pageIndex", JNum(Whole(1))), KV("text", JStr(<<"a">>))>>)}

MapEntries ==
  {es \in SeqsUpTo({KV(key, v) : key \in MapKeys, v \in MapValues}, MaxPages) :
     \A i, j \in 1..Len(es) :
       i < j => /\ es[i].k # es[j].k
                /\ IndexKeyRank(es[i].k) <= IndexKeyRank(es[j].k)
                /\ IndexKeyRank(es[j].k) < 2 =>
                     IndexKeyRank(es[i].k) < IndexKeyRank(es[j].k)}

Unwrapped ==
  {JArr(ps) : ps \in PageArrays}
    \cup {JObj(<<KV("pages", JArr(ps))>>) : ps \in PageArrays}
    \cup {JObj(<<KV("pages", JObj(es))>>) : es \in MapEntries}
    \cup {JObj(<<KV("pages", JStr(t))>>) : t \in Texts}
    \cup {JStr(t) : t \in Texts}
    \cup {JArr(ls) : ls \in LineArrays}
    \cup {JObj(<<KV("lines", JArr(ls))>>) : ls \in LineArrays}
    \cup {JObj(<<KV("text", JStr(t))>>) : t \in Texts}
    \cup {JNull, JNum(Whole(1)), JBool(TRUE), JObj(<<>>),
          JObj(<<KV("menu", JStr(<<"a">>))>>)}

\* Values wrapped in {result: ...} or {data: ...}, once or twice.
Wrappable ==
  {v \in Unwrapped :
     /\ v.t # "arr"
     /\ Prop(v, "pages").t = "arr" => Len(Prop(v, "pages").a) < MaxPages}

OcrInputs ==
  Unwrapped
    \cup {JObj(<<KV(w, v)>>) : w \in {"result", "data"}, v \in Wrappable}
    \cup {JObj(<<KV("result", JObj(<<KV("data", JObj(<<KV("text", JStr(t))>>))>>))>>) :
            t \in Texts}
    \cup {JObj(<<KV("result", JNull), KV("data", JStr(t))>>) : t \in Texts}

\* ------------------------------------------------ normalizeOcrResult, called
Normalize ==
  /\ npc = "start"
  /\ nOut' = normalizeOcrResult(nIn)
  /\ npc' = "once"
  /\ UNCHANGED <<nIn, nOut2, dbVars, pipeVars, schemaVars, codeVars, parseVars>>

\* The value returned is normalized again.
Renormalize ==
  /\ npc = "once"
  /\ nOut.t # "throw"
  /\ nOut2' = normalizeOcrResult(nOut)
  /\ npc' = "twice"
  /\ UNCHANGED <<nIn, nOut, dbVars, pipeVars, schemaVars, codeVars, parseVars>>

InitNorm ==
  /\ jobs = <<>>
  /\ now = 1
  /\ tx = [p \in Procs |-> IdleTx]
  /\ upl = <<>>
  /\ obs = [venueId |-> "v1", seen |-> {}, prior |-> FALSE, mid |-> FALSE]
  /\ lastTarget = [v \in Venues |-> 0]
  /\ pre = <<>>
  /\ PipeIdle
  /\ npc = "start"
  /\ nIn \in OcrInputs
  /\ nOut = JUndefined
  /\ nOut2 = JUndefined
  /\ vpc = "idle"
  /\ vSchema = "none"
  /\ vIn = JUndefined
  /\ vOk = FALSE
  /\ CodeIdle
  /\ ParseIdle

NextNorm == Normalize \/ Renormalize

SpecNorm == InitNorm /\ [][NextNorm]_vars

\* ------------------------------------------------------- normalizer claims
\* The pages of a value the normalizer returned.
PagesOf(v) == Prop(v, "pages").a

KeysOf(obj) == [i \in 1..Len(obj.a) |-> obj.a[i].k]

\* A value in the form {pages: [{pageIndex, lines}]} and nothing else.
Canonical(v) ==
  /\ v.t = "obj" /\ KeysOf(v) = <<"pages">>
  /\ Prop(v, "pages").t = "arr"
  /\ \A i \in 1..Len(PagesOf(v)) :
       LET page == PagesOf(v)[i]
       IN /\ page.t = "obj" /\ KeysOf(page) = <<"pageIndex", "lines">>
          /\ Prop(page, "pageIndex").t = "num"
          /\ Prop(page, "pageIndex").n % 2 = 0 /\ Prop(page, "pageIndex").n >= 0
          /\ Prop(page, "lines").t = "arr"
          /\ \A l \in 1..Len(Prop(page, "lines").a) :
               Prop(page, "lines").a[l].t = "str"

\* C16: normalizeOcrResult returns a value that is already in the form
\* {pages: [{pageIndex, lines}]} unchanged, and normalizing a value it has
\* returned gives that value again.
C16_CanonicalUnchanged ==
  /\ (npc # "start" /\ Canonical(nIn)) => nOut = nIn
  /\ npc = "twice" => nOut2 = nOut

C16_Witness ==
  /\ npc = "twice" /\ ~Canonical(nIn) /\ nOut2 = nOut
  /\ Len(PagesOf(nOut)) >= 2
  /\ \E i \in 1..Len(PagesOf(nOut)) : Len(Prop(PagesOf(nOut)[i], "lines").a) >= 2

\* C17 (as claimed): normalizeOcrResult never throws: whatever parsed JSON
\* value it is given, it returns a value the OCR schema accepts.
C17_NeverThrows ==
  npc # "start" => (nOut.t # "throw" /\ Canonical(nOut))

\* C18 (as claimed): in every value normalizeOcrResult returns, every line of
\* every page is a trimmed, non-empty string.
C18_LinesTrimmed ==
  (npc # "start" /\ nOut.t # "throw") =>
     \A i \in 1..Len(PagesOf(nOut)) :
       \A l \in 1..Len(Prop(PagesOf(nOut)[i], "lines").a) :
         LET line == Prop(PagesOf(nOut)[i], "lines").a[l]
         IN /\ line.t = "str"
            /\ line.s # <<>>
            /\ Head(line.s) \notin {" ", "\n", "\r", "\t"}
            /\ line.s[Len(line.s)] \notin {" ", "\n", "\r", "\t"}

\* C19 (as claimed): in every value normalizeOcrResult returns, the pages
\* are in ascending order of pageIndex.
C19_PagesAscending ==
  (npc # "start" /\ nOut.t # "throw") =>
     \A i, j \in 1..Len(PagesOf(nOut)) :
       i < j => Prop(PagesOf(nOut)[i], "pageIndex").n
                  <= Prop(PagesOf(nOut)[j], "pageIndex").n

\* ------------------------------------------------------- StructuredMenuSchema
\* z.string().min(1, ...)
NameOk(v) == v.t = "str" /\ Len(v.s) >= 1

\* Faulty variant: .min(0) is left out.
AmountOkNoMin(v) == v.t = "null" \/ (v.t = "num" /\ IsInteger(v.n))

\* z.number().int().min(0).nullable()
AmountOk(v) == v.t = "null" \/ (v.t = "num" /\ IsInteger(v.n) /\ v.n >= 0)

\* z.string().nullable()
NullableStringOk(v) == v.t \in {"str", "null"}

\* z.string().default("IDR"): the default stands in for undefined only
DefaultStringOk(v) == v.t \in {"str", "undefined"}

\* z.boolean().default(false)
DefaultBooleanOk(v) == v.t \in {"bool", "undefined"}

MenuItemSchemaOk(v) ==
  /\ v.t = "obj"
  /\ NameOk(Prop(v, "originalName"))
  /\ NameOk(Prop(v, "nameEn"))
  /\ NameOk(Prop(v, "nameRu"))
  /\ AmountOk(Prop(v, "priceValue"))
  /\ DefaultStringOk(Prop(v, "priceCurrency"))
  /\ NullableStringOk(Prop(v, "descriptionEn"))
  /\ NullableStringOk(Prop(v, "descriptionRu"))
  /\ DefaultBooleanOk(Prop(v, "isSpicy"))
  /\ AmountOk(Prop(v, "approxCalories"))
  /\ DefaultBooleanOk(Prop(v, "isLocalSpecial"))

MenuCategorySchemaOk(v) ==
  /\ v.t = "obj"
  /\ NameOk(Prop(v, "nameEn"))
  /\ NullableStringOk(Prop(v, "nameOriginal"))
  /\ NameOk(Prop(v, "nameRu"))
  /\ Prop(v, "items").t = "arr"
  /\ \A i \in 1..Len(Prop(v, "items").a) : MenuItemSchemaOk(Prop(v, "items").a[i])

StructuredMenuSchemaOk(v) ==
  /\ v.t = "obj"
  /\ Prop(v, "categories").t = "arr"
  /\ \A i \in 1..Len(Prop(v, "categories").a) :
       MenuCategorySchemaOk(Prop(v, "categories").a[i])

\* ------------------------------------------- the values given to the schemas
Present(entry) == entry.a[1].t # "undefined"

\* An object with the given entries, those with an undefined value left out.
ObjectOf(entries) == JObj(SelectSeq(entries, Present))

PageIndexValues ==
  {JNum(Whole(0)), JNum(Whole(2)), JNum(Whole(-1)), JNum(3), JStr(<<"0">>),
   JNull, JUndefined}

LinesFieldValues ==
  {JArr(ls) : ls \in LineArrays} \cup {JStr(<<"a">>), JNull, JUndefined}

SchemaPages ==
  {ObjectOf(<<KV("pageIndex", i), KV("lines", l)>>) :
     i \in PageIndexValues, l \in LinesFieldValues} \cup {JNull}

OcrSchemaInputs ==
  {JObj(<<KV("pages", JArr(ps))>>) : ps \in SeqsUpTo(SchemaPages, 1)}
    \cup {JObj(<<KV("pages", JArr(<<Page(0, <<>>), page>>))>>) :
            page \in SchemaPages}
    \cup {JObj(<<>>), JObj(<<KV("pages", JNull)>>), JNull, JArr(<<>>),
          JObj(<<KV("pages", JObj(<<>>))>>),
          JObj(<<KV("pages", JStr(<<"a">>))>>)}

NameValues == {JStr(<<"a">>), JStr(<<>>), JUndefined}

AmountValues ==
  {JNull, JNum(Whole(0)), JNum(Whole(5)), JNum(Whole(-1)), JNum(3),
   JStr(<<"5">>), JUndefined}

BaseItem ==
  [originalName |-> JStr(<<"a">>), nameEn |-> JStr(<<"a">>),
   nameRu |-> JStr(<<"a">>), priceValue |-> JNum(Whole(5)),
   priceCurrency |-> JStr(<<"I", "D", "R">>), descriptionEn |-> JNull,
   descriptionRu |-> JNull, isSpicy |-> JBool(FALSE),
   approxCalories |-> JNull, isLocalSpecial |-> JBool(TRUE)]

ItemFields == DOMAIN BaseItem

\* Items that differ from BaseItem in at most MaxDeviations fields.
ItemRecords ==
  {r \in [originalName : NameValues,
          nameEn : NameValues \cup {JNum(Whole(1))},
          nameRu : NameValues,
          priceValue : AmountValues,
          priceCurrency : {JStr(<<"I", "D", "R">>), JUndefined, JNull},
          descriptionEn : {JNull, JStr(<<>>), JUndefined},
          descriptionRu : {JNull, JStr(<<"a">>)},
          isSpicy : {JBool(FALSE), JUndefined, JStr(<<"a">>)},
          approxCalories : AmountValues,
          isLocalSpecial : {JBool(TRUE), JUndefined}] :
     Cardinality({f \in ItemFields : r[f] # BaseItem[f]}) <= MaxDeviations}

ItemObject(r) ==
  ObjectOf(<<KV("originalName", r.originalName), KV("nameEn", r.nameEn),
             KV("nameRu", r.nameRu), KV("priceValue", r.priceValue),
             KV("priceCurrency", r.priceCurrency),
             KV("descriptionEn", r.descriptionEn),
             KV("descriptionRu", r.descriptionRu), KV("isSpicy", r.isSpicy),
             KV("approxCalories", r.approxCalories),
             KV("isLocalSpecial", r.isLocalSpecial)>>)

BaseCategory ==
  [nameEn |-> JStr(<<"a">>), nameOriginal |-> JNull, nameRu |-> JStr(<<"a">>)]

\* Categories that differ from BaseCategory in at most one field.
CategoryRecords ==
  {r \in [nameEn : NameValues \cup {JNull}, nameOriginal : {JNull, JStr(<<>>),
          JUndefined}, nameRu : NameValues] :
     Cardinality({f \in DOMAIN BaseCategory : r[f] # BaseCategory[f]}) <= 1}

CategoryObject(r, items) ==
  ObjectOf(<<KV("nameEn", r.nameEn), KV("nameOriginal", r.nameOriginal),
             KV("nameRu", r.nameRu), KV("items", items)>>)

MenuObject(categories) == ObjectOf(<<KV("categories", categories)>>)

MenuSchemaInputs ==
  {MenuObject(JArr(<<CategoryObject(c, JArr(<<ItemObject(i)>>))>>)) :
     c \in CategoryRecords, i \in ItemRecords}
    \cup {MenuObject(JArr(<<CategoryObject(BaseCategory,
                              JArr(<<ItemObject(BaseItem), ItemObject(i)>>))>>)) :
            i \in ItemRecords}
    \cup {MenuObject(JArr(<<CategoryObject(BaseCategory, JArr(<<>>)),
                            CategoryObject(c, items)>>)) :
            c \in CategoryRecords,
            items \in {JArr(<<>>), JNull, JUndefined, JArr(<<JNull>>)}}
    \cup {MenuObject(c) : c \in {JUndefined, JNull, JArr(<<>>), JObj(<<>>),
                                 JArr(<<JNull>>), JStr(<<"a">>)}}
    \cup {JNull, JArr(<<>>)}

\* ------------------------------------------------------ the schemas, applied
\* OcrResultSchema.safeParse(value).success
ValidateOcr ==
  /\ vpc = "start" /\ vSchema = "ocr"
  /\ vOk' = OcrResultSchemaOk(vIn)
  /\ vpc' = "done"
  /\ UNCHANGED <<vSchema, vIn, npc, nIn, nOut, nOut2, dbVars, pipeVars, codeVars, parseVars>>

\* StructuredMenuSchema.safeParse(value).success
ValidateMenu ==
  /\ vpc = "start" /\ vSchema = "menu"
  /\ vOk' = StructuredMenuSchemaOk(vIn)
  /\ vpc' = "done"
  /\ UNCHANGED <<vSchema, vIn, npc, nIn, nOut, nOut2, dbVars, pipeVars, codeVars, parseVars>>

InitSchema ==
  /\ jobs = <<>>
  /\ now = 1
  /\ tx = [p \in Procs |-> IdleTx]
  /\ upl = <<>>
  /\ obs = [venueId |-> "v1", seen |-> {}, prior |-> FALSE, mid |-> FALSE]
  /\ lastTarget = [v \in Venues |-> 0]
  /\ pre = <<>>
  /\ PipeIdle
  /\ npc = "idle" /\ nIn = JUndefined /\ nOut = JUndefined /\ nOut2 = JUndefined
  /\ vpc = "start"
  /\ vOk = FALSE
  /\ CodeIdle
  /\ ParseIdle
  /\ \/ vSchema = "ocr" /\ vIn \in OcrSchemaInputs
     \/ vSchema = "menu" /\ vIn \in MenuSchemaInputs

NextSchema == ValidateOcr \/ ValidateMenu

SpecSchema == InitSchema /\ [][NextSchema]_vars

\* ------------------------------------------------------------ schema claims
NonEmptyString(v) == v.t = "str" /\ v.s # <<>>

NonNegativeInteger(v) == v.t = "num" /\ v.n % 2 = 0 /\ v.n >= 0

Absent(v) == v.t = "undefined"

ArrayOf(v, Each(_)) == v.t = "arr" /\ \A i \in 1..Len(v.a) : Each(v.a[i])

IsString(v) == v.t = "str"

PageConforms(page) ==
  /\ page.t = "obj"
  /\ NonNegativeInteger(Prop(page, "pageIndex"))
  /\ ArrayOf(Prop(page, "lines"), IsString)

ItemConforms(item) ==
  /\ item.t = "obj"
  /\ \A f \in {"originalName", "nameEn", "nameRu"} : NonEmptyString(Prop(item, f))
  /\ \A f \in {"priceValue", "approxCalories"} :
       Prop(item, f).t = "null" \/ NonNegativeInteger(Prop(item, f))
  /\ \A f \in {"descriptionEn", "descriptionRu"} :
       Prop(item, f).t \in {"str", "null"}
  /\ Absent(Prop(item, "priceCurrency")) \/ IsString(Prop(item, "priceCurrency"))
  /\ \A f \in {"isSpicy", "isLocalSpecial"} :
       Absent(Prop(item, f)) \/ Prop(item, f).t = "bool"

CategoryConforms(category) ==
  /\ category.t = "obj"
  /\ \A f \in {"nameEn", "nameRu"} : NonEmptyString(Prop(category, f))
  /\ Prop(category, "nameOriginal").t \in {"str", "null"}
  /\ ArrayOf(Prop(category, "items"), ItemConforms)

\* C20: the schema validators accept a value exactly when it conforms.  The
\* OCR schema accepts an object whose pages is an array of pages with a
\* non-negative integer number as pageIndex and an array of strings as lines,
\* and nothing else.  The structured-menu schema accepts an object whose
\* categories is an array of categories with non-empty nameEn and nameRu, a
\* string or null nameOriginal and an array of items, each item with
\* non-empty originalName, nameEn and nameRu, priceValue and approxCalories
\* a non-negative integer or null, string or null descriptions, and the
\* defaulted fields absent or of their type, and nothing else.
C20_SchemasAcceptConforming ==
  vpc = "done" =>
    (vOk <=> IF vSchema = "ocr"
             THEN vIn.t = "obj" /\ ArrayOf(Prop(vIn, "pages"), PageConforms)
             ELSE vIn.t = "obj"
                  /\ ArrayOf(Prop(vIn, "categories"), CategoryConforms))

C20_Witness ==
  /\ vpc = "done" /\ vSchema = "menu" /\ ~vOk
  /\ Len(Prop(vIn, "categories").a) = 1
  /\ LET item == Prop(Prop(vIn, "categories").a[1], "items").a[1]
     IN /\ Prop(item, "priceValue") = JNum(Whole(-1))
        /\ Prop(item, "nameEn") = JStr(<<"a">>)
        /\ Prop(item, "approxCalories") = JNull

\* ----------------------------------------------------- ensureVenueShortCode
\* { maxAttempts = 5 }
maxAttempts == 5

\* generateVenueShortCode(): one of the codes nanoid can produce
Codes == 1..MaxCodes

\* Venues that have a row; a call may also name one that has none.
CallVenues == Venues \cup {"v0"}

\* Faulty variant: every error is taken for a uniqueness conflict.
isUniqueConstraintErrorAny(error) == TRUE

isUniqueConstraintError(error) == error = "P2002"

\* Faulty variant: the update is not guarded by "shortCode is still null".
UpdateMatchesAlways(v) == TRUE

\* where: { id: venueId, shortCode: null }
UpdateMatches(v) == shortCode[v] = NULL

\* The unique index on Venue.shortCode refuses a code another venue holds.
Conflict(v, candidate) == \E w \in Venues \ {v} : shortCode[w] = candidate

ReturnCode(call, code) == [call EXCEPT !.pc = "done", !.ret = code]

ThrowError(call, e) == [call EXCEPT !.pc = "done", !.err = e]

\* The catch of the loop, then the loop's test: a uniqueness conflict goes on
\* to the next attempt, or to the throw after the loop when none is left.
CatchError(call, error) ==
  IF isUniqueConstraintError(error)
  THEN IF call.attempt + 1 < maxAttempts
       THEN [call EXCEPT !.pc = "loop", !.attempt = @ + 1]
       ELSE ThrowError([call EXCEPT !.attempt = @ + 1], "exhausted")
  ELSE ThrowError(call, "db")

CodeCall(p, v) ==
  /\ sc[p].pc \in {"idle", "done"}
  /\ sc' = [sc EXCEPT ![p] = [IdleCall EXCEPT !.pc = "find", !.venueId = v]]
  /\ UNCHANGED <<shortCode, dbVars, pipeVars, npc, nIn, nOut, nOut2, schemaVars,
               parseVars>>

\* the first findUnique and the two tests that follow it
CodeFind(p, dbFails) ==
  /\ sc[p].pc = "find"
  /\ LET call == sc[p]
         v == call.venueId
     IN sc' = [sc EXCEPT ![p] =
          IF dbFails THEN ThrowError(call, "db")
          ELSE IF v \notin Venues THEN ThrowError(call, "notfound")
          ELSE IF shortCode[v] # NULL
               THEN ReturnCode([call EXCEPT !.first = shortCode[v]],
                               shortCode[v])
               ELSE [call EXCEPT !.pc = "loop"]]
  /\ UNCHANGED <<shortCode, dbVars, pipeVars, npc, nIn, nOut, nOut2, schemaVars,
               parseVars>>

\* one attempt: a candidate and the conditional updateMany
CodeUpdate(p, candidate, dbFails) ==
  /\ sc[p].pc = "loop"
  /\ LET call == [sc[p] EXCEPT !.updates = @ + 1]
         v == call.venueId
     IN IF dbFails
        THEN /\ sc' = [sc EXCEPT ![p] =
                  CatchError([call EXCEPT !.other = TRUE], "other")]
             /\ UNCHANGED shortCode
        ELSE IF ~UpdateMatches(v)
        THEN /\ sc' = [sc EXCEPT ![p] = [call EXCEPT !.pc = "reread"]]
             /\ UNCHANGED shortCode
        ELSE IF Conflict(v, candidate)
        THEN /\ sc' = [sc EXCEPT ![p] = CatchError(call, "P2002")]
             /\ UNCHANGED shortCode
        ELSE /\ shortCode' = [shortCode EXCEPT ![v] = candidate]
             /\ sc' = [sc EXCEPT ![p] = ReturnCode(call, candidate)]
  /\ UNCHANGED <<dbVars, pipeVars, npc, nIn, nOut, nOut2, schemaVars,
               parseVars>>

\* res.count was 0: the second findUnique
CodeReread(p, dbFails) ==
  /\ sc[p].pc = "reread"
  /\ LET call == sc[p]
         v == call.venueId
     IN sc' = [sc EXCEPT ![p] =
          IF dbFails THEN CatchError([call EXCEPT !.other = TRUE], "other")
          ELSE IF shortCode[v] # NULL
               THEN ReturnCode(call, shortCode[v])
               ELSE IF call.attempt + 1 < maxAttempts
                    THEN [call EXCEPT !.pc = "loop", !.attempt = @ + 1]
                    ELSE ThrowError([call EXCEPT !.attempt = @ + 1], "exhausted")]
  /\ UNCHANGED <<shortCode, dbVars, pipeVars, npc, nIn, nOut, nOut2, schemaVars,
               parseVars>>

\* Venues start with no code or with codes that differ from one another.
InitCode ==
  /\ jobs = <<>>
  /\ now = 1
  /\ tx = [p \in Procs |-> IdleTx]
  /\ upl = <<>>
  /\ obs = [venueId |-> "v1", seen |-> {}, prior |-> FALSE, mid |-> FALSE]
  /\ lastTarget = [v \in Venues |-> 0]
  /\ pre = <<>>
  /\ PipeIdle
  /\ npc = "idle" /\ nIn = JUndefined /\ nOut = JUndefined /\ nOut2 = JUndefined
  /\ vpc = "idle" /\ vSchema = "none" /\ vIn = JUndefined /\ vOk = FALSE
  /\ shortCode \in {f \in [Venues -> {NULL} \cup Codes] :
                      \A v, w \in Venues :
                        (v # w /\ f[v] # NULL) => f[v] # f[w]}
  /\ sc = [p \in Procs |-> IdleCall]
  /\ ParseIdle

NextCode ==
  \/ \E p \in Procs, v \in CallVenues : CodeCall(p, v)
  \/ \E p \in Procs, dbFails \in BOOLEAN : CodeFind(p, dbFails)
  \/ \E p \in Procs, candidate \in Codes, dbFails \in BOOLEAN :
       CodeUpdate(p, candidate, dbFails)
  \/ \E p \in Procs, dbFails \in BOOLEAN : CodeReread(p, dbFails)

SpecCode == InitCode /\ [][NextCode]_vars

\* ------------------------------------------------------- short-code claims
\* C21: whatever the interleaving of ensureVenueShortCode calls, a venue's
\* shortCode, once not null, is never written again, and a call that has
\* returned a value returned the shortCode the venue holds; so two calls on
\* one venue that both returned hold the same code.
C21_WrittenOnce ==
  /\ [](\A p \in Procs :
         (sc[p].pc = "done" /\ sc[p].ret # NULL) =>
            sc[p].ret = shortCode[sc[p].venueId])
  /\ [][\A v \in Venues : shortCode[v] # NULL => shortCode'[v] = shortCode[v]]_vars

C21_Witness ==
  /\ sc["p1"].pc = "done" /\ sc["p2"].pc = "done"
  /\ sc["p1"].venueId = "v1" /\ sc["p2"].venueId = "v1"
  /\ sc["p1"].updates = 1 /\ sc["p2"].updates = 1
  /\ sc["p1"].first = NULL /\ sc["p2"].first = NULL
  /\ sc["p1"].ret # NULL /\ sc["p2"].ret = sc["p1"].ret

\* C22: a call makes at most maxAttempts conditional updates; each uniqueness
\* conflict is followed by another attempt while one is left; a call fails
\* for want of attempts only after maxAttempts updates, and at that moment
\* the venue's shortCode is still null; an error that is not a uniqueness
\* conflict ends the call at once with that error; a call that found a
\* shortCode returned it and made no update.
C22_BoundedAttempts ==
  /\ [](\A p \in Procs :
         /\ sc[p].updates <= maxAttempts
         /\ sc[p].pc = "loop" => sc[p].updates = sc[p].attempt
         /\ sc[p].err = "exhausted" => sc[p].updates = maxAttempts
         /\ sc[p].other => (sc[p].pc = "done" /\ sc[p].err = "db")
         /\ (sc[p].pc = "done" /\ sc[p].first # NULL) =>
               (sc[p].ret = sc[p].first /\ sc[p].updates = 0))
  /\ [][\A p \in Procs :
          (sc[p].err # "exhausted" /\ sc'[p].err = "exhausted") =>
             shortCode'[sc[p].venueId] = NULL]_vars

C22_Witness ==
  /\ sc["p1"].pc = "done" /\ sc["p1"].err = "exhausted"
  /\ sc["p1"].updates = maxAttempts
  /\ shortCode[sc["p1"].venueId] = NULL
  /\ sc["p2"].pc = "done" /\ sc["p2"].first # NULL /\ sc["p2"].updates = 0

\* ------------------------------------------------------ publish-time claims
\* The job the public menu query shows for venue v can be j: a published,
\* COMPLETED job whose publishedAt no other such job of the venue exceeds.
ReaderPicks(v, j) ==
  /\ j \in VisibleJobs(v)
  /\ \A k \in VisibleJobs(v) : jobs[k].publishedAt <= jobs[j].publishedAt

\* C23 (as claimed): a published job has a publishedAt; the published job of
\* a venue has the latest publishedAt among the venue's jobs; and a reader
\* that picks the published job with the greatest publishedAt gets the
\* target of the venue's most recent publish.
C23_PublishedAtLatest ==
  \A v \in Venues :
    /\ \A j \in PublishedOf(v) :
         /\ jobs[j].publishedAt # NULL
         /\ \A k \in JobIds :
              jobs[k].venueId = v => jobs[k].publishedAt <= jobs[j].publishedAt
    /\ \A j \in JobIds : ReaderPicks(v, j) => j = lastTarget[v]

\* ------------------------------------------------------ stage-order claims
\* C24: within one invocation a structuring call is made only after an OCR
\* call whose content passed recovery, normalization and the OCR schema,
\* with that call's result, and no OCR call is made once a structuring
\* call has been made: the OCR call that passed is the last of the OCR calls.
C24_StagesInOrder ==
  llmLog # <<>> =>
    /\ ocrLog # <<>>
    /\ OcrPassed(ocrLog[Len(ocrLog)])
    /\ \A i \in 1..Len(llmLog) : llmLog[i].arg = Len(ocrLog)
    /\ \A i \in 1..(Len(ocrLog) - 1) : ocrLog[i].kind # "ok"

C24_Witness ==
  /\ Returned
  /\ Len(ocrLog) = 2 /\ Len(llmLog) = 2

\* C25 (as claimed): an OCR call that succeeded but whose content failed
\* recovery or the OCR schema is retried: the orchestrator raises for such a
\* failure only after 2 OCR calls.
C25_OcrContentRetried ==
  (/\ Raised
   /\ ocrLog # <<>>
   /\ ocrLog[Len(ocrLog)].kind = "ok"
   /\ OcrContentError(ocrLog[Len(ocrLog)].content) # "none")
     => Len(ocrLog) = MAX_ATTEMPTS_OCR

\* ------------------------------------------------------------------ JSON.parse
\* The characters of the texts: braces, a quote, a colon, a digit, a letter
\* and a space.
Alphabet == {"{", "}", "\"", ":", "1", "x", " "}

\* JSON whitespace
JsonSpace == {" ", "\t", "\n", "\r"}

\* The first position from i on that holds no whitespace.
RECURSIVE SkipSpace(_, _)
SkipSpace(chars, i) ==
  IF i <= Len(chars) /\ chars[i] \in JsonSpace THEN SkipSpace(chars, i + 1)
  ELSE i

\* The parser stopped at position i: SyntaxError "Unexpected token ... at
\* position ..." or "Unexpected end of JSON input".
SyntaxError(chars, i) ==
  [ok |-> FALSE, v |-> JUndefined, i |-> i,
   msg |-> [pos |-> i - 1,
            tok |-> IF i <= Len(chars) THEN chars[i] ELSE "end"]]

Parsed(value, i) ==
  [ok |-> TRUE, v |-> value, i |-> i, msg |-> [pos |-> 0, tok |-> ""]]

\* The position of the quote that closes the string opened before i, or
\* Len(chars) + 1 when there is none.
RECURSIVE ClosingQuote(_, _)
ClosingQuote(chars, i) ==
  IF i > Len(chars) \/ chars[i] = "\"" THEN i ELSE ClosingQuote(chars, i + 1)

\* The position behind the digits that start at i.
RECURSIVE DigitsEnd(_, _)
DigitsEnd(chars, i) ==
  IF i <= Len(chars) /\ chars[i] = "1" THEN DigitsEnd(chars, i + 1) ELSE i

\* The number written as n digits 1.
RECURSIVE Ones(_)
Ones(n) == IF n = 0 THEN 0 ELSE 10 * Ones(n - 1) + 1

\* A string literal that starts with the quote at i.
ParseString(chars, i) ==
  LET close == ClosingQuote(chars, i + 1)
  IN IF close > Len(chars) THEN SyntaxError(chars, close)
     ELSE Parsed(JStr(SubSeq(chars, i + 1, close - 1)), close + 1)

\* An object member: its key as characters, and its value.
Member(key, value) == [JNull EXCEPT !.t = "kv", !.s = key, !.a = <<value>>]

\* One JSON value that starts at i: an object of at most one member (the
\* texts have no comma), a string without escapes, or a number.
RECURSIVE ParseValue(_, _)
ParseValue(chars, i) ==
  IF i > Len(chars) THEN SyntaxError(chars, i)
  ELSE IF chars[i] = "\"" THEN ParseString(chars, i)
  ELSE IF chars[i] = "1"
  THEN Parsed(JNum(Whole(Ones(DigitsEnd(chars, i) - i))), DigitsEnd(chars, i))
  ELSE IF chars[i] = "{"
  THEN LET j == SkipSpace(chars, i + 1)
       IN IF j <= Len(chars) /\ chars[j] = "}" THEN Parsed(JObj(<<>>), j + 1)
          ELSE IF j > Len(chars) \/ chars[j] # "\"" THEN SyntaxError(chars, j)
          ELSE LET key == ParseString(chars, j)
                   colon == SkipSpace(chars, key.i)
               IN IF ~key.ok THEN key
                  ELSE IF colon > Len(chars) \/ chars[colon] # ":"
                  THEN SyntaxError(chars, colon)
                  ELSE LET value == ParseValue(chars,
                                               SkipSpace(chars, colon + 1))
                           close == SkipSpace(chars, value.i)
                       IN IF ~value.ok THEN value
                          ELSE IF close > Len(chars) \/ chars[close] # "}"
                          THEN SyntaxError(chars, close)
                          ELSE Parsed(JObj(<<Member(key.v.s, value.v)>>),
                                      close + 1)
  ELSE SyntaxError(chars, i)

\* JSON.parse(text): one value, whitespace around it, and nothing else.
JSONparse(chars) ==
  LET value == ParseValue(chars, SkipSpace(chars, 1))
      rest == SkipSpace(chars, value.i)
      r == IF ~value.ok THEN value
           ELSE IF rest <= Len(chars) THEN SyntaxError(chars, rest)
           ELSE value
  IN [ok |-> r.ok, v |-> r.v, msg |-> r.msg]

\* ------------------------------------------------------------ parseModelJson
\* content.indexOf(c), counted from 0; -1 when c is not in content
indexOf(chars, c) ==
  IF \E i \in 1..Len(chars) : chars[i] = c
  THEN (CHOOSE i \in 1..Len(chars) :
          chars[i] = c /\ \A k \in 1..(i - 1) : chars[k] # c) - 1
  ELSE -1

\* content.lastIndexOf(c)
lastIndexOf(chars, c) ==
  IF \E i \in 1..Len(chars) : chars[i] = c
  THEN (CHOOSE i \in 1..Len(chars) :
          chars[i] = c /\ \A k \in (i + 1)..Len(chars) : chars[k] # c) - 1
  ELSE -1

\* content.slice(from, to) for 0 <= from <= to <= length
slice(chars, from, to) == SubSeq(chars, from + 1, to)

\* new Error(`Failed to parse model JSON: ${error.message}`)
ParseFailure(error) == [ok |-> FALSE, v |-> JUndefined, msg |-> error.msg]

\* Faulty variant: the error of the second parse is the one reported.
ReportedErrorLast(first, second) == second

\* The error named in the failure: the one the outer catch has caught.
ReportedError(first, second) == first

parseModelJson(content) ==
  LET direct == JSONparse(content)
      firstBrace == indexOf(content, "{")
      lastBrace == lastIndexOf(content, "}")
      candidate == slice(content, firstBrace, lastBrace + 1)
  IN IF direct.ok THEN direct
     ELSE IF firstBrace >= 0 /\ lastBrace > firstBrace
     THEN IF JSONparse(candidate).ok THEN JSONparse(candidate)
          ELSE ParseFailure(ReportedError(direct, JSONparse(candidate)))
     ELSE ParseFailure(direct)

\* The texts: every string of up to MaxText characters of the alphabet.
ModelTexts == SeqsUpTo(Alphabet, MaxText)

ParseModelJson ==
  /\ jpc = "start"
  /\ jOut' = parseModelJson(jIn)
  /\ jpc' = "done"
  /\ UNCHANGED <<jIn, dbVars, pipeVars, npc, nIn, nOut, nOut2, schemaVars,
                 codeVars>>

InitParse ==
  /\ jobs = <<>>
  /\ now = 1
  /\ tx = [p \in Procs |-> IdleTx]
  /\ upl = <<>>
  /\ obs = [venueId |-> "v1", seen |-> {}, prior |-> FALSE, mid |-> FALSE]
  /\ lastTarget = [v \in Venues |-> 0]
  /\ pre = <<>>
  /\ PipeIdle
  /\ npc = "idle" /\ nIn = JUndefined /\ nOut = JUndefined /\ nOut2 = JUndefined
  /\ vpc = "idle" /\ vSchema = "none" /\ vIn = JUndefined /\ vOk = FALSE
  /\ CodeIdle
  /\ jpc = "start"
  /\ jIn \in ModelTexts
  /\ jOut = NoParse

NextParse == ParseModelJson

SpecParse == InitParse /\ [][NextParse]_vars

\* ------------------------------------------------------------ recovery claim
\* The positions of the text that hold the character c.
Places(chars, c) == {i \in 1..Len(chars) : chars[i] = c}

\* The substring from the first '{' to the last '}' of a text that has a '{'
\* followed later by a '}'.
Braced(chars) ==
  LET open == CHOOSE i \in Places(chars, "{") :
                \A k \in Places(chars, "{") : i <= k
      close == CHOOSE j \in Places(chars, "}") :
                 \A k \in Places(chars, "}") : k <= j
  IN SubSeq(chars, open, close)

HasBraces(chars) ==
  \E i \in Places(chars, "{"), j \in Places(chars, "}") : i < j

\* C26: parseModelJson returns the direct parse of a text that is valid
\* JSON; otherwise, when the text has a '{' followed later by a '}' and the
\* substring from the first '{' to the last '}' is valid JSON, the parse of
\* that substring; in every other case it raises a failure that carries the
\* message of the error of the direct parse.
C26_ParseRecovery ==
  jpc = "done" =>
    IF JSONparse(jIn).ok
    THEN jOut.ok /\ jOut.v = JSONparse(jIn).v
    ELSE IF HasBraces(jIn) /\ JSONparse(Braced(jIn)).ok
    THEN jOut.ok /\ jOut.v = JSONparse(Braced(jIn)).v
    ELSE ~jOut.ok /\ jOut.msg = JSONparse(jIn).msg

\* A text with words around an object that parses.
C26_Witness ==
  /\ jpc = "done"
  /\ jIn = <<"x", " ", "{", " ", "}", "x">>
  /\ jOut.ok /\ jOut.v = JObj(<<>>)

\* ------------------------------------------------------------- upload claims
\* A step of an upload handler: the job is created, the pipeline ends, the
\* categories are stored, the job is completed or failed.
UploadStep ==
  \/ \E v \in RouteVenues : UploadCreate(v)
  \/ \E j \in JobIds : UploadPipeline(j)
  \/ \E j \in JobIds, n \in 0..MaxCats : UploadPersist(j, n)
  \/ \E j \in JobIds : UploadComplete(j)
  \/ \E j \in JobIds : UploadCatch(j)

\* C27: no step of an upload (create, process, complete, fail) changes
\* isPublished or publishedAt of a job, publishes the job it creates, or
\* changes the set of jobs a guest can be shown: the job published before
\* stays the published, visible job of its venue until a publish commits.
C27_UploadKeepsPublished ==
  [][UploadStep =>
       /\ \A j \in JobIds :
            /\ jobs'[j].isPublished = jobs[j].isPublished
            /\ jobs'[j].publishedAt = jobs[j].publishedAt
       /\ \A v \in Venues :
            /\ PublishedOf(v)' = PublishedOf(v)
            /\ VisibleJobs(v)' = VisibleJobs(v)]_vars

C27_Witness ==
  \E j, k \in JobIds :
    /\ j < k /\ jobs[j].venueId = jobs[k].venueId
    /\ VisibleJobs(jobs[j].venueId) = {j}
    /\ jobs[k].status = "FAILED" /\ upl[k] = "failed"
    /\ obs.venueId = jobs[j].venueId /\ obs.seen = {j}

\* C28 (as claimed): a job is COMPLETED only once the transaction that
\* stores its categories has committed, and a job that is FAILED has no
\* category stored for it.
C28_CategoriesWithCompleted ==
  \A j \in JobIds :
    /\ jobs[j].status = "COMPLETED" => upl[j] \notin {"pipeline", "persist"}
    /\ jobs[j].status = "FAILED" => jobs[j].cats = 0

\* ------------------------------------------------------ publish-route claims
\* The jobs of venue v.
JobsOf(v) == {j \in JobIds : jobs[j].venueId = v}

\* Venue v has a job and j is the one created last.
Newest(v, j) == j \in JobsOf(v) /\ \A k \in JobsOf(v) : k <= j

\* C29: a publish request of a venue that has no job is answered 404, one
\* of a venue whose latest job is not COMPLETED is answered 400; either
\* leaves every job as it was and starts no publish, so a job published
\* earlier stays published.
C29_RejectedPublish ==
  [][\A p \in Procs, v \in RouteVenues :
       RoutePublish(p, v) =>
         /\ JobsOf(v) = {} =>
              (tx'[p].pc = "done" /\ tx'[p].resp = "404" /\ jobs' = jobs)
         /\ \A j \in JobIds :
              (Newest(v, j) /\ jobs[j].status # "COMPLETED") =>
                 (tx'[p].pc = "done" /\ tx'[p].resp = "400" /\ jobs' = jobs)]_vars

C29_Witness ==
  \E p \in Procs, j, k \in JobIds :
    /\ tx[p].pc = "done" /\ tx[p].resp = "400" /\ tx[p].venueId = "v1"
    /\ j < k /\ jobs[j].venueId = "v1" /\ jobs[k].venueId = "v1"
    /\ jobs[j].isPublished /\ jobs[j].publishedAt # NULL
    /\ jobs[k].status = "FAILED"
    /\ \A q \in Procs : tx[q].pc \notin InFlight

\* C30: a publish request of a venue whose latest job is already published
\* is answered with success and changes no job, so its publishedAt stays
\* as the first publish set it: a second publish request right after a
\* first one leaves the state the first one left.
C30_PublishIdempotent ==
  [][\A p \in Procs, v \in RouteVenues :
       RoutePublish(p, v) =>
         \A j \in JobIds :
           (Newest(v, j) /\ jobs[j].status = "COMPLETED" /\ jobs[j].isPublished)
              => /\ tx'[p].pc = "done" /\ tx'[p].resp = "already"
                 /\ jobs' = jobs /\ lastTarget' = lastTarget]_vars

C30_Witness ==
  /\ tx["p1"].pc = "done" /\ tx["p1"].resp = "already"
  /\ tx["p2"].pc = "idle"
  /\ lastTarget["v1"] # 0
  /\ Newest("v1", lastTarget["v1"])
  /\ PublishedOf("v1") = {lastTarget["v1"]}
====
